---- MODULE Spec2Model ----
(***************************************************************************)
(* Model of the fundraising CRM's chatbot command flow:                    *)
(*   core/chatbot.py        ChatbotService (command interpreter)           *)
(*   core/email_service.py  EmailService (mailer + audit log)              *)
(*   core/views.py          chatbot_api and the CRUD views                 *)
(*   core/models.py         Investor, Artifact, EmailDraft,                *)
(*                          CommunicationLog, ResponseFunding              *)
(* Text is modelled as sequences of one-character strings so that the      *)
(* regular expressions, split('@') and the case-insensitive lookup are     *)
(* computed, not assumed.                                                  *)
(***************************************************************************)
EXTENDS Integers, Sequences, FiniteSets, TLC

VARIABLES investors, artifacts, drafts, logs, responses, nextId, last, inflight

vars == <<investors, artifacts, drafts, logs, responses, nextId, last, inflight>>

----------------------------------------------------------------------------
\* Bounds of the model (primary keys are handed out by monotone counters).
MaxInvestorId == 2
MaxArtifactId == 2
MaxDraftId == 2
MaxLogId == 2
MaxResponseId == 1
MaxTailLen == 2
MaxQueryLen == 5
MaxRows == 11
MaxBodyLen == 2

----------------------------------------------------------------------------
\* Values

NoUser == "<none>"
Users == {"alice"}
NoId == 0
NoError == ""

\* jane@x.io and raj@y.io
Jane == <<"j", "a", "n", "e", "@", "x", ".", "i", "o">>
Raj == <<"r", "a", "j", "@", "y", ".", "i", "o">>
Emails == {Jane, Raj}

\* names a user types into the investor form
FormNames == {<<"V", "C">>}

\* draft names a user types into the draft form: "p", "P", "p q"
FormDraftNames == {<<"p">>, <<"P">>, <<"p", " ", "q">>}

\* characters of the text that follows "draft of " in a command
TailAlphabet == {"p", "P", " ", "'"}

\* the character classes of the regular expressions (chatbot.py:22, 27, 120)
LowerLetters ==
    {"a", "b", "c", "d", "e", "f", "g", "h", "i", "j", "k", "l", "m", "n",
     "o", "p", "q", "r", "s", "t", "u", "v", "w", "x", "y", "z"}
\* str.lower() of every upper-case letter
ToLower ==
    [A |-> "a", B |-> "b", C |-> "c", D |-> "d", E |-> "e", F |-> "f",
     G |-> "g", H |-> "h", I |-> "i", J |-> "j", K |-> "k", L |-> "l",
     M |-> "m", N |-> "n", O |-> "o", P |-> "p", Q |-> "q", R |-> "r",
     S |-> "s", T |-> "t", U |-> "u", V |-> "v", W |-> "w", X |-> "x",
     Y |-> "y", Z |-> "z"]
UpperLetters == DOMAIN ToLower
Letters == LowerLetters \cup UpperLetters
Digits == {"0", "1", "2", "3", "4", "5", "6", "7", "8", "9"}
\* \w
WordChars == Letters \cup Digits \cup {"_"}
\* [a-zA-Z0-9._%+-] and [a-zA-Z0-9.-]
LocalChars == Letters \cup Digits \cup {".", "_", "%", "+", "-"}
DomainChars == Letters \cup Digits \cup {".", "-"}
QuoteChars == {"'", "\""}
\* \s, and what str.strip() removes
SpaceChars == {" "}
\* the words 'and', 'or', 'for', 'the' of chatbot.py:122
StopWords == {<<"a", "n", "d">>, <<"o", "r">>, <<"f", "o", "r">>, <<"t", "h", "e">>}

\* outcomes of EmailMessage.send(fail_silently=False)
TransportOk == "sent"
TransportErrors == {"Connection refused"}
TransportOutcomes == {TransportOk} \cup TransportErrors

\* state of an Artifact's FileField as seen by the attach loop
FileStates == {"none", "ok", "missing", "nopath"}
PathError == "The file cannot be accessed by path"

----------------------------------------------------------------------------
\* Text helpers

\* str.lower() / the database's case folding, on the characters in use
Lower(c) == IF c \in UpperLetters THEN ToLower[c] ELSE c

LowerStr(s) == [i \in 1..Len(s) |-> Lower(s[i])]

\* the name__iexact lookup of chatbot.py:73
IExact(stored, given) == LowerStr(stored) = LowerStr(given)

\* index of the first character of s, at or after i, that is not in cls
RECURSIVE SkipWhile(_, _, _)
SkipWhile(s, i, cls) ==
    IF i <= Len(s) /\ s[i] \in cls THEN SkipWhile(s, i + 1, cls) ELSE i

\* index of the first occurrence of c in s at or after i, Len(s) + 1 if none
RECURSIVE FindChar(_, _, _)
FindChar(s, i, c) ==
    IF i <= Len(s) /\ s[i] # c THEN FindChar(s, i + 1, c) ELSE i

\* Mutant: the whole address is taken as the name
SplitAtFirst_whole(s) == s

\* email_address.split('@')[0]
SplitAtFirst(s) == SubSeq(s, 1, FindChar(s, 1, "@") - 1)

\* All sequences over alphabet of length 0..n
RECURSIVE SeqsUpTo(_, _)
SeqsUpTo(alphabet, n) ==
    IF n = 0 THEN {<<>>}
    ELSE LET shorter == SeqsUpTo(alphabet, n - 1)
         IN shorter \cup {Append(s, c) : s \in {t \in shorter : Len(t) = n - 1}, c \in alphabet}

CommandTails == SeqsUpTo(TailAlphabet, MaxTailLen)

\* Mutant: the group is (\w) instead of (\w+), one character is captured
DraftNameGroup_one_char(tail) ==
    LET start == SkipWhile(tail, 1, SpaceChars)
        first == IF start <= Len(tail) /\ tail[start] \in WordChars
                     THEN start
                 ELSE IF start + 1 <= Len(tail) /\ tail[start] \in QuoteChars
                         /\ tail[start + 1] \in WordChars
                     THEN start + 1
                 ELSE 0
    IN IF first = 0 THEN <<"o">>
       ELSE SubSeq(tail, first, first)

\* group(2) of SEND_EMAIL_PATTERN on the stripped message
\*   "send email to <email> draft of " + tail
\* i.e. the match of  \s+(?:of\s+)?["']?(\w+)["']?  after the word "draft".
\* With "of" taken, \s+ eats the blanks that start the tail, an optional quote
\* follows and \w+ takes the longest run of word characters; when no word
\* character follows, the engine backtracks, skips the optional group and
\* \w+ matches the word "of" itself.
DraftNameGroup(tail) ==
    LET start == SkipWhile(tail, 1, SpaceChars)
        first == IF start <= Len(tail) /\ tail[start] \in WordChars
                     THEN start
                 ELSE IF start + 1 <= Len(tail) /\ tail[start] \in QuoteChars
                         /\ tail[start + 1] \in WordChars
                     THEN start + 1
                 ELSE 0
    IN IF first = 0 THEN <<"o", "f">>
       ELSE SubSeq(tail, first, SkipWhile(tail, first, WordChars) - 1)

\* the words of the two command patterns
SEND == <<"s", "e", "n", "d">>
EMAIL == <<"e", "m", "a", "i", "l">>
TO == <<"t", "o">>
THE == <<"t", "h", "e">>
DRAFT == <<"d", "r", "a", "f", "t">>
OF == <<"o", "f">>
SHOW == <<"s", "h", "o", "w">>
ME == <<"m", "e">>
DATA == <<"d", "a", "t", "a">>
FOR == <<"f", "o", "r">>

\* str.strip()
RECURSIVE SkipBack(_, _, _)
SkipBack(s, i, cls) ==
    IF i >= 1 /\ s[i] \in cls THEN SkipBack(s, i - 1, cls) ELSE i

Strip(s) == SubSeq(s, SkipWhile(s, 1, SpaceChars), SkipBack(s, Len(s), SpaceChars))

\* index of the first character of s, at or after i, that is in cls
RECURSIVE FindIn(_, _, _)
FindIn(s, i, cls) ==
    IF i <= Len(s) /\ s[i] \notin cls THEN FindIn(s, i + 1, cls) ELSE i

\* the literal lit (lower case) at position i of s, under re.IGNORECASE
LitAt(s, i, lit) ==
    /\ i + Len(lit) - 1 <= Len(s)
    /\ \A k \in 1..Len(lit) : Lower(s[i + k - 1]) = lit[k]

\* \s+ at position i: the index after the blanks, 0 when there is none
Blanks(s, i) ==
    IF i >= 1 /\ i <= Len(s) /\ s[i] \in SpaceChars THEN SkipWhile(s, i, SpaceChars) ELSE 0

\* lit\s+ at position i: the index after it, 0 when it does not match
WordThenBlanks(s, i, lit) ==
    IF i >= 1 /\ LitAt(s, i, lit) THEN Blanks(s, i + Len(lit)) ELSE 0

\* (?:lit\s+)? at position i (0 stays 0)
Optional(s, i, lit) ==
    LET after == WordThenBlanks(s, i, lit)
    IN IF after # 0 THEN after ELSE i

\* ([a-zA-Z0-9._%+-]+@[a-zA-Z0-9.-]+\.[a-zA-Z]{2,}) at position i, with \s
\* to follow: the index after the address, 0 when it does not match.  The
\* local part runs up to the '@'; the domain is the whole run of domain
\* characters, which must end in a dot and two or more letters.
EmailEnd(s, i) ==
    IF i = 0 THEN 0
    ELSE LET at == SkipWhile(s, i, LocalChars)
             end == SkipWhile(s, at + 1, DomainChars)
             dot == SkipBack(s, end - 1, Letters)
         IN IF /\ at > i
               /\ at <= Len(s)
               /\ s[at] = "@"
               /\ dot >= at + 2
               /\ s[dot] = "."
               /\ end - 1 - dot >= 2
                THEN end
            ELSE 0

\* ["']?(\w+) at position i: the word, <<>> when it does not match
WordGroup(s, i) ==
    LET first == IF i <= Len(s) /\ s[i] \in WordChars
                     THEN i
                 ELSE IF i + 1 <= Len(s) /\ s[i] \in QuoteChars
                         /\ s[i + 1] \in WordChars
                     THEN i + 1
                 ELSE 0
    IN IF first = 0 THEN <<>>
       ELSE SubSeq(s, first, SkipWhile(s, first, WordChars) - 1)

NoMatch == [matched |-> FALSE, groups |-> <<>>]

\* SEND_EMAIL_PATTERN matched with its first character at position i
SendEmailAt(s, i) ==
    LET to == WordThenBlanks(s, WordThenBlanks(s, WordThenBlanks(s, i, SEND), EMAIL), TO)
        end == EmailEnd(s, to)
        draft == IF end = 0 THEN 0
                 ELSE WordThenBlanks(s, Optional(s, Blanks(s, end), THE), DRAFT)
        name == IF draft = 0 THEN <<>>
                ELSE IF WordThenBlanks(s, draft, OF) # 0
                    THEN DraftNameGroup(SubSeq(s, draft + Len(OF) + 1, Len(s)))
                ELSE WordGroup(s, draft)
    IN IF name = <<>> THEN NoMatch
       ELSE [matched |-> TRUE, groups |-> <<SubSeq(s, to, end - 1), name>>]

\* SEARCH_PATTERN matched with its first character at position i.  (.+) is
\* the rest of the text after the blanks, one of '-' and ':' and more blanks
\* are skipped; when that leaves nothing the engine gives back the last
\* character it skipped.
SearchAt(s, i) ==
    LET data == WordThenBlanks(s, Optional(s, WordThenBlanks(s, i, SHOW), ME), DATA)
        for == IF data # 0 /\ LitAt(s, data, FOR) THEN data + Len(FOR) ELSE 0
        mark == SkipWhile(s, for, SpaceChars)
        rest == SkipWhile(s, IF mark <= Len(s) /\ s[mark] \in {"-", ":"}
                                 THEN mark + 1 ELSE mark,
                          SpaceChars)
    IN IF for = 0 \/ for > Len(s) THEN NoMatch
       ELSE IF rest <= Len(s)
           THEN [matched |-> TRUE, groups |-> <<SubSeq(s, rest, Len(s))>>]
       ELSE [matched |-> TRUE, groups |-> <<SubSeq(s, Len(s), Len(s))>>]

\* pattern.search(s): the leftmost position where the pattern matches
SendEmailSearch(s, i) ==
    LET from[j \in 1..(Len(s) + 1)] ==
            IF j > Len(s) THEN NoMatch
            ELSE LET here == SendEmailAt(s, j)
                 IN IF here.matched THEN here ELSE from[j + 1]
    IN from[i]

SearchSearch(s, i) ==
    LET from[j \in 1..(Len(s) + 1)] ==
            IF j > Len(s) THEN NoMatch
            ELSE LET here == SearchAt(s, j)
                 IN IF here.matched THEN here ELSE from[j + 1]
    IN from[i]

\* re.findall(r"['\"]([^'\"]+)['\"]|(\w+)", query_string) and line 121: at
\* each position a quoted run that is closed, else a run of word characters,
\* else the next position
RECURSIVE FindKeywords(_, _)
FindKeywords(q, i) ==
    IF i > Len(q) THEN <<>>
    ELSE LET close == FindIn(q, i + 1, QuoteChars)
             after == SkipWhile(q, i, WordChars)
         IN IF q[i] \in QuoteChars /\ close > i + 1 /\ close <= Len(q)
                THEN <<SubSeq(q, i + 1, close - 1)>> \o FindKeywords(q, close + 1)
            ELSE IF q[i] \in WordChars
                THEN <<SubSeq(q, i, after - 1)>> \o FindKeywords(q, after)
            ELSE FindKeywords(q, i + 1)

\* lines 120-122 of _handle_search: the keywords of a query
Keywords(query_string) ==
    LET found == FindKeywords(query_string, 1)
        kept == SelectSeq(found,
                    LAMBDA k : Strip(k) # <<>> /\ LowerStr(k) \notin StopWords)
    IN [n \in 1..Len(kept) |-> Strip(kept[n])]

\* field__icontains=keyword
IContains(field, keyword) ==
    \E i \in 1..(Len(field) - Len(keyword) + 1) :
        LowerStr(SubSeq(field, i, i + Len(keyword) - 1)) = LowerStr(keyword)

\* The elements of a finite set of records, by descending id
\* (Meta.ordering = ['-created_date'])
RECURSIVE NewestFirst(_)
NewestFirst(S) ==
    IF S = {} THEN <<>>
    ELSE LET top == CHOOSE r \in S : \A o \in S : o.id <= r.id
         IN <<top>> \o NewestFirst(S \ {top})

SeqToSet(s) == {s[i] : i \in 1..Len(s)}

----------------------------------------------------------------------------
\* core/email_service.py

NotCalled == "not called"

\* The attach loop of send_draft_email (lines 37-43), over the draft's
\* artifacts in queryset order.  acc records the artifacts whose attachment
\* was attempted, those attached, and the exception that left the loop.
\*   "none"    artifact.file is empty: skipped
\*   "ok"      attach_file succeeds
\*   "missing" attach_file raises; the handler prints the warning and goes on
\*   "nopath"  artifact.file.path raises; the handler's own f-string reads
\*             artifact.file.path again, so the exception leaves the loop
RECURSIVE AttachArtifacts(_, _)
AttachArtifacts(arts, acc) ==
    IF arts = <<>> THEN acc
    ELSE LET a == Head(arts)
         IN IF a.file = "none" THEN AttachArtifacts(Tail(arts), acc)
            ELSE IF a.file = "ok"
                THEN AttachArtifacts(Tail(arts),
                         [acc EXCEPT !.attempted = @ \cup {a.id},
                                     !.attached = @ \cup {a.id}])
            ELSE IF a.file = "missing"
                THEN AttachArtifacts(Tail(arts),
                         [acc EXCEPT !.attempted = @ \cup {a.id}])
            ELSE [acc EXCEPT !.attempted = @ \cup {a.id}, !.raised = PathError]

\* Mutant: a '<' alone marks the message as HTML
ContentSubtype_open_only(body) ==
    IF \E k \in 1..Len(body) : body[k] = "<" THEN "html" ELSE "plain"

\* lines 33-35 and 93-94: EmailMessage.content_subtype is 'plain' unless the
\* body holds a '<' and a '>'
ContentSubtype(body) ==
    IF (\E k \in 1..Len(body) : body[k] = "<") /\ (\E k \in 1..Len(body) : body[k] = ">")
        THEN "html"
    ELSE "plain"

LogRow(investor, draft, status, user, notes) ==
    [investor |-> investor.id, draft |-> draft.id, status |-> status,
     sent_by |-> user, notes |-> notes]

\* Mutant: the except branch returns without writing the 'failed' row
send_draft_email_unlogged(investor, draft, user, transport) ==
    LET files == NewestFirst({a \in artifacts : a.id \in draft.artifacts})
        att == AttachArtifacts(files,
                   [attempted |-> {}, attached |-> {}, raised |-> NoError])
        base == [attempted |-> att.attempted, attached |-> att.attached,
                 content_subtype |-> ContentSubtype(draft.body)]
    IN IF att.raised # NoError
           THEN base @@
                [success |-> FALSE, message |-> att.raised,
                 submitted |-> FALSE, transport |-> NotCalled, rows |-> <<>>]
       ELSE IF transport = TransportOk
           THEN base @@
                [success |-> TRUE, message |-> "Email sent successfully",
                 submitted |-> TRUE, transport |-> transport,
                 rows |-> <<LogRow(investor, draft, "success", user,
                                   <<"Email sent via chatbot">>)>>]
       ELSE base @@
            [success |-> FALSE, message |-> transport,
             submitted |-> TRUE, transport |-> transport, rows |-> <<>>]

\* Mutant: the 'success' row is written before email.send() is called, so a
\* transport failure leaves it behind next to the 'failed' row
send_draft_email_log_first(investor, draft, user, transport) ==
    LET files == NewestFirst({a \in artifacts : a.id \in draft.artifacts})
        att == AttachArtifacts(files,
                   [attempted |-> {}, attached |-> {}, raised |-> NoError])
        base == [attempted |-> att.attempted, attached |-> att.attached,
                 content_subtype |-> ContentSubtype(draft.body)]
        early == LogRow(investor, draft, "success", user, <<"Email sent via chatbot">>)
    IN IF att.raised # NoError
           THEN base @@
                [success |-> FALSE, message |-> att.raised,
                 submitted |-> FALSE, transport |-> NotCalled,
                 rows |-> <<LogRow(investor, draft, "failed", user,
                                   <<"Failed to send: ", att.raised>>)>>]
       ELSE IF transport = TransportOk
           THEN base @@
                [success |-> TRUE, message |-> "Email sent successfully",
                 submitted |-> TRUE, transport |-> transport,
                 rows |-> <<early>>]
       ELSE base @@
            [success |-> FALSE, message |-> transport,
             submitted |-> TRUE, transport |-> transport,
             rows |-> <<early, LogRow(investor, draft, "failed", user,
                                      <<"Failed to send: ", transport>>)>>]

\* EmailService.send_draft_email(investor, draft, user); transport is what
\* email.send(fail_silently=False) does when it is reached.  rows are the
\* CommunicationLog rows the call creates, in order.
send_draft_email(investor, draft, user, transport) ==
    LET files == NewestFirst({a \in artifacts : a.id \in draft.artifacts})
        att == AttachArtifacts(files,
                   [attempted |-> {}, attached |-> {}, raised |-> NoError])
        base == [attempted |-> att.attempted, attached |-> att.attached,
                 content_subtype |-> ContentSubtype(draft.body)]
    IN IF att.raised # NoError
           THEN base @@
                [success |-> FALSE, message |-> att.raised,
                 submitted |-> FALSE, transport |-> NotCalled,
                 rows |-> <<LogRow(investor, draft, "failed", user,
                                   <<"Failed to send: ", att.raised>>)>>]
       ELSE IF transport = TransportOk
           THEN base @@
                [success |-> TRUE, message |-> "Email sent successfully",
                 submitted |-> TRUE, transport |-> transport,
                 rows |-> <<LogRow(investor, draft, "success", user,
                                   <<"Email sent via chatbot">>)>>]
       ELSE base @@
            [success |-> FALSE, message |-> transport,
             submitted |-> TRUE, transport |-> transport,
             rows |-> <<LogRow(investor, draft, "failed", user,
                               <<"Failed to send: ", transport>>)>>]

NoSend ==
    [attempted |-> {}, attached |-> {}, content_subtype |-> "", success |-> FALSE,
     message |-> NoError, submitted |-> FALSE, transport |-> NotCalled, rows |-> <<>>]

\* The attach loop of send_custom_email (lines 96-101) over the given paths;
\* a path that cannot be attached is reported and skipped
AttachPaths(attachments) ==
    [attempted |-> {k \in 1..Len(attachments) : TRUE},
     attached |-> {k \in 1..Len(attachments) : attachments[k] = "ok"}]

\* EmailService.send_custom_email(to_email, subject, body, attachments, user):
\* the same message without a draft, and without a CommunicationLog row
send_custom_email(to_email, subject, body, attachments, user, transport) ==
    AttachPaths(attachments) @@
    [content_subtype |-> ContentSubtype(body),
     success |-> transport = TransportOk,
     message |-> IF transport = TransportOk THEN "Email sent successfully" ELSE transport,
     submitted |-> TRUE, transport |-> transport, rows |-> <<>>]

----------------------------------------------------------------------------
\* core/chatbot.py

\* Response dictionaries: 'type', 'message' and, when hasData, 'data'.
\* A data entry is a model object (flat = FALSE) or plain JSON (flat = TRUE).
NoData == [k \in {} |-> 0]

Message(text, about, names, detail) ==
    [text |-> text, about |-> about, names |-> names, detail |-> detail]

Response(type, message) ==
    [type |-> type, message |-> message, hasData |-> FALSE, data |-> NoData]

ResponseWithData(type, message, data) ==
    [type |-> type, message |-> message, hasData |-> TRUE, data |-> data]

NoResponse == Response("<none>", Message("", <<>>, <<>>, ""))

ModelObjects(model, ids) == [model |-> model, ids |-> ids, flat |-> FALSE]
PlainRecords(model, ids) == [model |-> model, ids |-> ids, flat |-> TRUE]

NoDraftsAvailable == <<"No drafts available">>

\* Mutant: the lookup is skipped and a row is always created
get_or_create_always(email, name, updated_by) ==
    [investor |-> [id |-> nextId.investor, name |-> name, email |-> email,
                   labels |-> <<>>, updated_by |-> updated_by],
     created |-> TRUE]

\* Investor.objects.get_or_create(email=..., defaults={name, updated_by})
get_or_create(email, name, updated_by) ==
    LET found == {i \in investors : i.email = email}
    IN IF found # {}
           THEN [investor |-> CHOOSE i \in found : TRUE, created |-> FALSE]
       ELSE [investor |-> [id |-> nextId.investor, name |-> name, email |-> email,
                           labels |-> <<>>, updated_by |-> updated_by],
             created |-> TRUE]

\* the arguments of the send_draft_email call
NoCall == [investor |-> NoId, draft |-> NoId, user |-> NoUser]

\* the outcomes of gemini_model.generate_content(context), and no model
AiUnconfigured == "unconfigured"
AiCompletion == "completion"
AiErrors == {"timeout", "auth", "quota", "malformed response"}
AiOutcomes == {AiUnconfigured, AiCompletion} \cup AiErrors
NoAi == "not asked"

NoPrompt == [asked |-> FALSE]

\* What a call of the interpreter did: the handlers it ran with their
\* arguments, the exception it let escape, its response, the Investor rows it
\* created, the send_draft_email call and the prompt it gave the AI backend
NoEffect ==
    [raised |-> NoError, response |-> NoResponse, created |-> {},
     send |-> NoSend, called |-> FALSE, call |-> NoCall,
     handlers |-> <<>>, draft_name |-> <<>>, query |-> <<>>, keywords |-> <<>>,
     ai |-> NoAi, prompt |-> NoPrompt]

\* Mutant: the investor is looked up or created before the draft is looked up
handle_send_email_create_first(user, email_address, draft_name, transport) ==
    LET matching == {d \in drafts : IExact(d.name, draft_name)}
        entered == [NoEffect EXCEPT !.handlers = <<"send_email">>,
                                    !.draft_name = draft_name]
    IN IF Cardinality(matching) > 1
           THEN [entered EXCEPT !.raised = "MultipleObjectsReturned"]
       ELSE IF matching = {}
           THEN LET available_drafts ==
                        [i \in 1..Cardinality(drafts) |-> NewestFirst(drafts)[i].name]
                    drafts_list == IF available_drafts # <<>> THEN available_drafts
                                   ELSE <<NoDraftsAvailable>>
                    goc == get_or_create(email_address, SplitAtFirst(email_address),
                                         IF user # NoUser THEN user ELSE "system")
                IN [entered EXCEPT
                    !.created = IF goc.created THEN {goc.investor} ELSE {},
                    !.response =
                        Response("error",
                            Message("Draft not found. Available drafts:",
                                    <<draft_name>>, drafts_list, ""))]
       ELSE LET draft == CHOOSE d \in matching : TRUE
                goc == get_or_create(email_address, SplitAtFirst(email_address),
                                     IF user # NoUser THEN user ELSE "system")
                investor == goc.investor
                investor_status == IF goc.created THEN "Created new investor"
                                   ELSE "Found existing investor"
                sent == send_draft_email(investor, draft, user, transport)
            IN [entered EXCEPT
                !.created = IF goc.created THEN {investor} ELSE {},
                !.send = sent,
                !.called = TRUE,
                !.call = [investor |-> investor.id, draft |-> draft.id, user |-> user],
                !.response =
                    IF sent.success
                        THEN ResponseWithData("success",
                                 Message("Email sent successfully!",
                                         <<email_address, draft_name, investor.name>>,
                                         <<>>, investor_status),
                                 [k \in {"investor", "draft"} |->
                                     IF k = "investor"
                                         THEN ModelObjects("Investor", <<investor.id>>)
                                     ELSE ModelObjects("EmailDraft", <<draft.id>>)])
                    ELSE Response("error",
                             Message("Failed to send email:", <<>>, <<>>,
                                     sent.message))]

\* Mutant: the Investor row created on the fly is withdrawn when the send fails
handle_send_email_rollback(user, email_address, draft_name, transport) ==
    LET matching == {d \in drafts : IExact(d.name, draft_name)}
        entered == [NoEffect EXCEPT !.handlers = <<"send_email">>,
                                    !.draft_name = draft_name]
    IN IF Cardinality(matching) > 1
           THEN [entered EXCEPT !.raised = "MultipleObjectsReturned"]
       ELSE IF matching = {}
           THEN LET available_drafts ==
                        [i \in 1..Cardinality(drafts) |-> NewestFirst(drafts)[i].name]
                    drafts_list == IF available_drafts # <<>> THEN available_drafts
                                   ELSE <<NoDraftsAvailable>>
                IN [entered EXCEPT !.response =
                        Response("error",
                            Message("Draft not found. Available drafts:",
                                    <<draft_name>>, drafts_list, ""))]
       ELSE LET draft == CHOOSE d \in matching : TRUE
                goc == get_or_create(email_address, SplitAtFirst(email_address),
                                     IF user # NoUser THEN user ELSE "system")
                investor == goc.investor
                investor_status == IF goc.created THEN "Created new investor"
                                   ELSE "Found existing investor"
                sent == send_draft_email(investor, draft, user, transport)
            IN [entered EXCEPT
                !.created = IF goc.created /\ sent.success THEN {investor} ELSE {},
                !.send = sent,
                !.called = TRUE,
                !.call = [investor |-> investor.id, draft |-> draft.id, user |-> user],
                !.response =
                    IF sent.success
                        THEN ResponseWithData("success",
                                 Message("Email sent successfully!",
                                         <<email_address, draft_name, investor.name>>,
                                         <<>>, investor_status),
                                 [k \in {"investor", "draft"} |->
                                     IF k = "investor"
                                         THEN ModelObjects("Investor", <<investor.id>>)
                                     ELSE ModelObjects("EmailDraft", <<draft.id>>)])
                    ELSE Response("error",
                             Message("Failed to send email:", <<>>, <<>>,
                                     sent.message))]

\* ChatbotService._handle_send_email(email_address, draft_name), with
\* self.user = user.  The result lists what the call did: the exception it
\* let escape, its response, the Investor rows it created and the
\* send_draft_email call it made.
handle_send_email(user, email_address, draft_name, transport) ==
    LET matching == {d \in drafts : IExact(d.name, draft_name)}
        entered == [NoEffect EXCEPT !.handlers = <<"send_email">>,
                                    !.draft_name = draft_name]
    IN IF Cardinality(matching) > 1
           THEN [entered EXCEPT !.raised = "MultipleObjectsReturned"]
       ELSE IF matching = {}
           THEN LET available_drafts ==
                        [i \in 1..Cardinality(drafts) |-> NewestFirst(drafts)[i].name]
                    drafts_list == IF available_drafts # <<>> THEN available_drafts
                                   ELSE <<NoDraftsAvailable>>
                IN [entered EXCEPT !.response =
                        Response("error",
                            Message("Draft not found. Available drafts:",
                                    <<draft_name>>, drafts_list, ""))]
       ELSE LET draft == CHOOSE d \in matching : TRUE
                goc == get_or_create(email_address, SplitAtFirst(email_address),
                                     IF user # NoUser THEN user ELSE "system")
                investor == goc.investor
                investor_status == IF goc.created THEN "Created new investor"
                                   ELSE "Found existing investor"
                sent == send_draft_email(investor, draft, user, transport)
            IN [entered EXCEPT
                !.created = IF goc.created THEN {investor} ELSE {},
                !.send = sent,
                !.called = TRUE,
                !.call = [investor |-> investor.id, draft |-> draft.id, user |-> user],
                !.response =
                    IF sent.success
                        THEN ResponseWithData("success",
                                 Message("Email sent successfully!",
                                         <<email_address, draft_name, investor.name>>,
                                         <<>>, investor_status),
                                 [k \in {"investor", "draft"} |->
                                     IF k = "investor"
                                         THEN ModelObjects("Investor", <<investor.id>>)
                                     ELSE ModelObjects("EmailDraft", <<draft.id>>)])
                    ELSE Response("error",
                             Message("Failed to send email:", <<>>, <<>>,
                                     sent.message))]

\* the investors[:10] and artifacts[:10] of the summary
SummaryLimit == 10

\* list({row.id: row for row in rows}.values()): the first occurrence of
\* every id, in order
RECURSIVE Unique(_)
Unique(rows) ==
    IF rows = <<>> THEN <<>>
    ELSE <<Head(rows)>> \o
         Unique(SelectSeq(Tail(rows), LAMBDA r : r.id # Head(rows).id))

\* Mutant: the labels are not searched
MatchingInvestors_no_labels(keyword) ==
    NewestFirst({i \in investors :
                    \/ IContains(i.name, keyword)
                    \/ IContains(i.email, keyword)})

\* lines 133-139: the queryset of one keyword, in Meta.ordering
MatchingInvestors(keyword) ==
    NewestFirst({i \in investors :
                    \/ IContains(i.name, keyword)
                    \/ IContains(i.email, keyword)
                    \/ IContains(i.labels, keyword)})

\* lines 148-154
MatchingArtifacts(keyword) ==
    NewestFirst({a \in artifacts :
                    \/ IContains(a.name, keyword)
                    \/ IContains(a.artifact_labels, keyword)
                    \/ IContains(a.description, keyword)})

\* lines 131-140 and 146-155: the querysets of the keywords, one after another
RECURSIVE ExtendInvestors(_)
ExtendInvestors(keywords) ==
    IF keywords = <<>> THEN <<>>
    ELSE MatchingInvestors(Head(keywords)) \o ExtendInvestors(Tail(keywords))

RECURSIVE ExtendArtifacts(_)
ExtendArtifacts(keywords) ==
    IF keywords = <<>> THEN <<>>
    ELSE MatchingArtifacts(Head(keywords)) \o ExtendArtifacts(Tail(keywords))

Ids(rows) == [n \in 1..Len(rows) |-> rows[n].id]

FirstRows(rows, limit) == SubSeq(rows, 1, IF Len(rows) < limit THEN Len(rows) ELSE limit)

\* lines 160-175: the header with the keywords, the two counts and the
\* listed rows (none and no count when nothing was found)
SearchSummary(keywords, found_investors, found_artifacts) ==
    [text |-> "Search results for:", about |-> keywords, names |-> <<>>, detail |-> "",
     investor_count |-> Len(found_investors),
     investor_lines |-> Ids(FirstRows(found_investors, SummaryLimit)),
     artifact_count |-> Len(found_artifacts),
     artifact_lines |-> Ids(FirstRows(found_artifacts, SummaryLimit))]

\* Mutant: the payload carries the rows of the summary
SearchData_listed_only(keywords, found_investors, found_artifacts) ==
    [k \in {"investors", "artifacts", "keywords"} |->
        IF k = "investors"
            THEN ModelObjects("Investor", Ids(FirstRows(found_investors, SummaryLimit)))
        ELSE IF k = "artifacts"
            THEN ModelObjects("Artifact", Ids(FirstRows(found_artifacts, SummaryLimit)))
        ELSE PlainRecords("str", keywords)]

\* lines 180-184: the 'data' of the search response
SearchData(keywords, found_investors, found_artifacts) ==
    [k \in {"investors", "artifacts", "keywords"} |->
        IF k = "investors" THEN ModelObjects("Investor", Ids(found_investors))
        ELSE IF k = "artifacts" THEN ModelObjects("Artifact", Ids(found_artifacts))
        ELSE PlainRecords("str", keywords)]

\* ChatbotService._handle_search(query_string)
handle_search(query_string) ==
    LET keywords == Keywords(query_string)
        found_investors == Unique(ExtendInvestors(keywords))
        found_artifacts == Unique(ExtendArtifacts(keywords))
        entered == [NoEffect EXCEPT !.handlers = <<"search">>,
                                    !.query = query_string,
                                    !.keywords = keywords]
    IN IF keywords = <<>>
           THEN [entered EXCEPT !.response =
                    Response("error",
                        Message("Please provide keywords to search for.", <<>>, <<>>, ""))]
       ELSE [entered EXCEPT !.response =
                ResponseWithData("search_results",
                    SearchSummary(keywords, found_investors, found_artifacts),
                    SearchData(keywords, found_investors, found_artifacts))]

\* ChatbotService._fallback_response(message): the help text with the three
\* counts
fallback_response ==
    Response("help",
        [text |-> "I'm your fundraising assistant!", about |-> <<>>, names |-> <<>>,
         detail |-> "",
         investor_count |-> Cardinality(investors),
         artifact_count |-> Cardinality(artifacts),
         draft_count |-> Cardinality(drafts)])

\* lines 194-214: the counts of the context prompt; recent_emails is
\* CommunicationLog.objects.count()
ContextPrompt(message) ==
    [asked |-> TRUE,
     investor_count |-> Cardinality(investors),
     artifact_count |-> Cardinality(artifacts),
     draft_count |-> Cardinality(drafts),
     recent_emails |-> Cardinality(logs),
     question |-> message]

\* Mutant: the except clause answers with the error instead of the help text
handle_generic_query_raw_error(message, ai) ==
    LET entered == [NoEffect EXCEPT !.handlers = <<"generic_query">>, !.ai = ai]
    IN IF ai = AiUnconfigured
           THEN [entered EXCEPT !.response = fallback_response]
       ELSE IF ai = AiCompletion
           THEN [entered EXCEPT
                    !.prompt = ContextPrompt(message),
                    !.response = Response("ai_response",
                                     Message("completion", <<>>, <<>>, ""))]
       ELSE [entered EXCEPT
                !.prompt = ContextPrompt(message),
                !.response = Response("error", Message(ai, <<>>, <<>>, ""))]

\* ChatbotService._handle_generic_query(message); ai is what the backend does
\* with the prompt: no model was set up, a completion, or an exception from
\* generate_content or from reading response.text
handle_generic_query(message, ai) ==
    LET entered == [NoEffect EXCEPT !.handlers = <<"generic_query">>, !.ai = ai]
    IN IF ai = AiUnconfigured
           THEN [entered EXCEPT !.response = fallback_response]
       ELSE IF ai = AiCompletion
           THEN [entered EXCEPT
                    !.prompt = ContextPrompt(message),
                    !.response = Response("ai_response",
                                     Message("completion", <<>>, <<>>, ""))]
       ELSE [entered EXCEPT
                !.prompt = ContextPrompt(message),
                !.response = fallback_response]

\* Chat messages, by how their text is put together:
\*   send       "send email to <email> draft of <tail>"
\*   show       "show data for <tail>"
\*   show_send  "show data for send email to <email> draft of <tail>"
\*   text       "<tail>"
SendMessages(emails, tails) == [cmd : {"send"}, email : emails, tail : tails]
ShowMessages(tails) == [cmd : {"show"}, email : {<<>>}, tail : tails]
ShowSendMessages(emails, tails) == [cmd : {"show_send"}, email : emails, tail : tails]
TextMessages(texts) == [cmd : {"text"}, email : {<<>>}, tail : texts]

SendText(email, tail) ==
    SEND \o <<" ">> \o EMAIL \o <<" ">> \o TO \o <<" ">> \o email \o <<" ">>
         \o DRAFT \o <<" ">> \o OF \o <<" ">> \o tail

ShowText(tail) == SHOW \o <<" ">> \o DATA \o <<" ">> \o FOR \o <<" ">> \o tail

\* the characters of a chat message
MessageText(message) ==
    IF message.cmd = "send" THEN SendText(message.email, message.tail)
    ELSE IF message.cmd = "show" THEN ShowText(message.tail)
    ELSE IF message.cmd = "show_send"
        THEN ShowText(SendText(message.email, message.tail))
    ELSE message.tail

\* The messages of the specifications

NoMessage == [cmd |-> "none", email |-> <<>>, tail |-> <<>>]

\* send-email commands for the draft "p", and for "p" and "q"
MailTails == {<<"p">>}
ApiTails == {<<"p">>, <<"q">>}

\* messages that hold a send-email command, a search command, both or
\* neither
Hi == <<"h", "i">>
ShowData == <<"s", "h", "o", "w", " ", "d", "a", "t", "a">>
\* jane@x has no top-level domain: no address for the send-email pattern
JaneNoTld == <<"j", "a", "n", "e", "@", "x">>
ChatTexts == {Hi, ShowData, SendText(JaneNoTld, <<"p">>)}
ChatMessages ==
    SendMessages({Jane}, MailTails) \cup ShowSendMessages({Jane}, MailTails)
        \cup ShowMessages({<<>>, <<"V">>, <<"-">>}) \cup TextMessages(ChatTexts)

\* queries whose keywords are found in names, emails and labels
SearchTails ==
    {<<"x">>, <<"t", "e", "c", "h">>, <<"j", "a", "n", "e", " ", "t", "e", "c", "h">>,
     <<"t", "e", "c", "h", ",", " ", "'", "J", "A", "N", "E", "'">>, <<"i", "o", " ", "v", "c">>, <<"z", "z">>}

\* queries for the tokenizer: every text over QueryAlphabet up to
\* MaxQueryLen, and one or two tokens, quoted or not, with a blank between
\* them
QueryAlphabet == {"o", "r", "O", " ", "'", "-"}
QueryFragments == SeqsUpTo(QueryAlphabet, MaxQueryLen)

Quoted(text) == [quoted |-> TRUE, text |-> text]
Unquoted(text) == [quoted |-> FALSE, text |-> text]
ItemText(item) ==
    IF item.quoted THEN <<"'">> \o item.text \o <<"'">> ELSE item.text

SeriesA == <<"S", "e", "r", "i", "e", "s", " ", "A">>
Fund == <<"f", "u", "n", "d">>
\* words between blanks, one of them with a hyphen, and quoted texts
BlankSeparatedItems ==
    {Unquoted(<<"o">>), Unquoted(<<"o", "-", "r">>), Unquoted(Fund),
     Quoted(<<"o", " ", "r">>), Quoted(<<" ", "o">>), Quoted(SeriesA)}

\* the queries of one item and of two items with a blank between them, and
\* the texts of their items
BlankSeparatedCases ==
    {[text |-> ItemText(i), keywords |-> <<i.text>>] : i \in BlankSeparatedItems}
        \cup {[text |-> ItemText(i) \o <<" ">> \o ItemText(j),
               keywords |-> <<i.text, j.text>>] :
                  i \in BlankSeparatedItems, j \in BlankSeparatedItems}

\* the example of the search command: "show data for - 'Series A', fund"
SeriesAFund == <<"-", " ">> \o ItemText(Quoted(SeriesA)) \o <<",", " ">> \o Fund

TokenTails ==
    QueryFragments \cup {c.text : c \in BlankSeparatedCases}
        \cup {SeriesAFund}

\* queries against storage that holds many rows
SummaryTails ==
    {<<"v", "c">>, <<"p", "e">>, <<"d">>, <<"p", "e", " ", "v", "c", " ", "d">>,
     <<"x", ".", "i", "o">>, <<"z", "z">>}

Messages ==
    {NoMessage} \cup SendMessages(Emails, MailTails \cup ApiTails \cup CommandTails)
        \cup ChatMessages
        \cup ShowMessages(SearchTails \cup TokenTails \cup SummaryTails)

\* lines 52-60 of process_message: the message is stripped and the two
\* patterns are searched in it
ApplyPatterns(text) ==
    [text |-> text,
     email_match |-> SendEmailSearch(text, 1),
     search_match |-> SearchSearch(text, 1)]

\* ApplyPatterns of every message of the specifications, worked out once
Matched == [m \in Messages |-> ApplyPatterns(Strip(MessageText(m)))] @@ <<>>

\* Mutant: the search pattern is tried before the send-email pattern
FirstMatching_search_first(user, found, transport, ai) ==
    IF found.search_match.matched
        THEN handle_search(found.search_match.groups[1])
    ELSE IF found.email_match.matched
        THEN handle_send_email(user, found.email_match.groups[1],
                               found.email_match.groups[2], transport)
    ELSE handle_generic_query(found.text, ai)

\* lines 55-65 of process_message: the handler of the first pattern found
FirstMatching(user, found, transport, ai) ==
    IF found.email_match.matched
        THEN handle_send_email(user, found.email_match.groups[1],
                               found.email_match.groups[2], transport)
    ELSE IF found.search_match.matched
        THEN handle_search(found.search_match.groups[1])
    ELSE handle_generic_query(found.text, ai)

\* ChatbotService(user).process_message(message)
process_message(user, message, transport, ai) ==
    FirstMatching(user, Matched[message], transport, ai)

----------------------------------------------------------------------------
\* core/views.py: chatbot_api

Methods == {"POST", "GET"}

\* request.body, by what json.loads and data.get('message', '') make of it
BodyShapes ==
    {"not_utf8", "invalid_json", "json_array", "no_message", "message_null",
     "message_number", "message_empty", "message_blank", "message_text"}

Bodies(shapes, messages) ==
    [shape : shapes \ {"message_text"}, message : {NoMessage}]
        \cup [shape : shapes \cap {"message_text"}, message : messages]

\* lines 169-179: only the 'investors' and 'artifacts' entries are rewritten
CleanData(response) ==
    IF response.hasData
        THEN [response EXCEPT !.data =
                 [k \in DOMAIN response.data |->
                     IF k \in {"investors", "artifacts"}
                         THEN PlainRecords(response.data[k].model, response.data[k].ids)
                     ELSE response.data[k]]]
    ELSE response

\* JsonResponse(response) raises TypeError on a model instance
Serializable(response) == \A k \in DOMAIN response.data : response.data[k].flat

ViewResult(http, raised, response, effect) ==
    [http |-> http, raised |-> raised, response |-> response, effect |-> effect]

\* lines 168-181: the data of the response is cleaned and the response is
\* serialized; an exception of process_message or of JsonResponse crosses
\* the view
CleanedResponse(effect, response) ==
    IF effect.raised # NoError
        THEN ViewResult(500, effect.raised, NoResponse, effect)
    ELSE IF Serializable(response)
        THEN ViewResult(200, NoError, response, effect)
    ELSE ViewResult(500, "TypeError", NoResponse, effect)

JsonResponse(effect) == CleanedResponse(effect, CleanData(effect.response))

\* Mutant: the test for an empty message is missing
chatbot_api_no_empty_check(method, user, body, transport, ai) ==
    IF method # "POST"
        THEN ViewResult(405, NoError,
                 Response("error", Message("Method not allowed", <<>>, <<>>, "")),
                 NoEffect)
    ELSE IF body.shape = "not_utf8"
        THEN ViewResult(500, "UnicodeDecodeError", NoResponse, NoEffect)
    ELSE IF body.shape = "invalid_json"
        THEN ViewResult(200, NoError,
                 Response("error", Message("Invalid request format.", <<>>, <<>>, "")),
                 NoEffect)
    ELSE IF body.shape \in {"json_array", "message_null", "message_number"}
        THEN ViewResult(500, "AttributeError", NoResponse, NoEffect)
    ELSE JsonResponse(process_message(user, body.message, transport, ai))

\* chatbot_api(request) for a logged-in user
chatbot_api(method, user, body, transport, ai) ==
    IF method # "POST"
        THEN ViewResult(405, NoError,
                 Response("error", Message("Method not allowed", <<>>, <<>>, "")),
                 NoEffect)
    ELSE IF body.shape = "not_utf8"
        THEN ViewResult(500, "UnicodeDecodeError", NoResponse, NoEffect)
    ELSE IF body.shape = "invalid_json"
        THEN ViewResult(200, NoError,
                 Response("error", Message("Invalid request format.", <<>>, <<>>, "")),
                 NoEffect)
    ELSE IF body.shape \in {"json_array", "message_null", "message_number"}
        THEN ViewResult(500, "AttributeError", NoResponse, NoEffect)
    ELSE IF body.shape \in {"no_message", "message_empty", "message_blank"}
        THEN ViewResult(200, NoError,
                 Response("error", Message("Please enter a message.", <<>>, <<>>, "")),
                 NoEffect)
    ELSE JsonResponse(process_message(user, body.message, transport, ai))

----------------------------------------------------------------------------
\* State

\* What the last operation was and what it returned
Last(op, user, method, shape, message, result) ==
    [op |-> op, user |-> user, method |-> method, shape |-> shape,
     message |-> message,
     http |-> result.http, raised |-> result.raised, response |-> result.response,
     called |-> result.effect.called, call |-> result.effect.call,
     send |-> result.effect.send, created |-> result.effect.created,
     handlers |-> result.effect.handlers, draft_name |-> result.effect.draft_name,
     query |-> result.effect.query, keywords |-> result.effect.keywords,
     ai |-> result.effect.ai, prompt |-> result.effect.prompt]

\* No chatbot call has been made since storage last changed
Idle == Last("idle", NoUser, "", "", NoMessage, ViewResult(0, NoError, NoResponse, NoEffect))

\* the requests that can be in progress at once, and one that is not
Requests == {1, 2}

NoRequest ==
    [pc |-> "idle", user |-> NoUser, email_address |-> <<>>, transport |-> NotCalled,
     draft |-> [id |-> NoId], investor |-> [id |-> NoId], created |-> FALSE,
     refused |-> FALSE, log |-> NoId, raised |-> NoError, type |-> ""]

Init ==
    /\ investors = {}
    /\ artifacts = {}
    /\ drafts = {}
    /\ logs = {}
    /\ responses = {}
    /\ nextId = [investor |-> 1, artifact |-> 1, draft |-> 1, log |-> 1, response |-> 1]
    /\ last = Idle
    /\ inflight = [c \in Requests |-> NoRequest]

\* The database writes of a command: the created Investor rows and the
\* CommunicationLog rows, which take the next primary keys
Commit(effect) ==
    /\ investors' = investors \cup effect.created
    /\ logs' = logs \cup
           {effect.send.rows[i] @@ [id |-> nextId.log + i - 1] :
                i \in 1..Len(effect.send.rows)}
    /\ nextId' = [nextId EXCEPT !.investor = @ + Cardinality(effect.created),
                                !.log = @ + Len(effect.send.rows)]

\* The searches and the generic queries write nothing and run at any time;
\* the other requests run while both counters are within the bounds
HasRoom(effect) ==
    \/ effect.handlers \in {<<"search">>, <<"generic_query">>}
    \/ nextId.investor <= MaxInvestorId /\ nextId.log <= MaxLogId

\* ChatbotService(user).process_message(message) called directly
ProcessMessage(user, message, transport, ai) ==
    \E effect \in {process_message(user, message, transport, ai)} :
        /\ HasRoom(effect)
        /\ Commit(effect)
        /\ last' = Last("process_message", user, "", "", message,
                        ViewResult(0, effect.raised, effect.response, effect))
        /\ UNCHANGED <<artifacts, drafts, responses, inflight>>

\* A request to /api/chatbot/
ChatbotApi(method, user, body, transport, ai) ==
    \E result \in {chatbot_api(method, user, body, transport, ai)} :
        /\ HasRoom(result.effect)
        /\ Commit(result.effect)
        /\ last' = Last("chatbot_api", user, method, body.shape, body.message, result)
        /\ UNCHANGED <<artifacts, drafts, responses, inflight>>

\* EmailService().send_custom_email(to_email, subject, body, attachments, user)
\* called directly; the message of the record is the mail that was composed
SendCustomEmail(to_email, body, attachments, user, transport) ==
    /\ last' = Last("send_custom_email", user, "", "",
                    [cmd |-> "mail", email |-> to_email, tail |-> body],
                    ViewResult(0, NoError, NoResponse,
                        [NoEffect EXCEPT !.send =
                            send_custom_email(to_email, <<>>, body, attachments, user,
                                              transport)]))
    /\ UNCHANGED <<investors, artifacts, drafts, logs, responses, nextId, inflight>>

----------------------------------------------------------------------------
\* core/views.py: the CRUD views (POST requests of a logged-in user)

\* investor_create: InvestorForm checks that the email is not taken
InvestorCreate(user, name, email, labels) ==
    /\ nextId.investor <= MaxInvestorId
    /\ IF \A i \in investors : i.email # email
           THEN /\ investors' = investors \cup
                       {[id |-> nextId.investor, name |-> name, email |-> email,
                         labels |-> labels, updated_by |-> user]}
                /\ nextId' = [nextId EXCEPT !.investor = @ + 1]
                /\ last' = Idle
       ELSE /\ UNCHANGED <<investors, nextId>>
            /\ last' = Idle
    /\ UNCHANGED <<artifacts, drafts, logs, responses, inflight>>

\* investor_edit
InvestorEdit(pk, user, name, email, labels) ==
    /\ \E i \in investors : i.id = pk
    /\ IF \A i \in investors : i.id # pk => i.email # email
           THEN /\ investors' = {IF i.id = pk
                                     THEN [i EXCEPT !.name = name, !.email = email,
                                                    !.labels = labels,
                                                    !.updated_by = user]
                                 ELSE i : i \in investors}
                /\ last' = Idle
       ELSE /\ UNCHANGED investors
            /\ last' = Idle
    /\ UNCHANGED <<artifacts, drafts, logs, responses, nextId, inflight>>

\* Mutant: the logs of the investor are left behind
InvestorDelete_keep_logs(pk, user) ==
    /\ \E i \in investors : i.id = pk
    /\ investors' = {i \in investors : i.id # pk}
    /\ responses' = {r \in responses : r.investor # pk}
    /\ last' = Idle
    /\ UNCHANGED <<artifacts, drafts, logs, nextId, inflight>>

\* investor_delete: CommunicationLog.investor and ResponseFunding.investor are
\* on_delete=CASCADE, and so is ResponseFunding.communication
InvestorDelete(pk, user) ==
    /\ \E i \in investors : i.id = pk
    /\ investors' = {i \in investors : i.id # pk}
    /\ logs' = {l \in logs : l.investor # pk}
    /\ responses' = {r \in responses :
                        /\ r.investor # pk
                        /\ \A l \in logs : l.id = r.communication => l.investor # pk}
    /\ last' = Idle
    /\ UNCHANGED <<artifacts, drafts, nextId, inflight>>

\* artifact_create: the upload is required; file says what the mailer will
\* find when it reads the stored file
ArtifactCreate(user, file, name, artifact_labels, description) ==
    /\ nextId.artifact <= MaxArtifactId
    /\ artifacts' = artifacts \cup
           {[id |-> nextId.artifact, file |-> file, name |-> name,
             artifact_labels |-> artifact_labels, description |-> description]}
    /\ nextId' = [nextId EXCEPT !.artifact = @ + 1]
    /\ last' = Idle
    /\ UNCHANGED <<investors, drafts, logs, responses, inflight>>

\* artifact_edit
ArtifactEdit(pk, user, file, name, artifact_labels, description) ==
    /\ \E a \in artifacts : a.id = pk
    /\ artifacts' = {IF a.id = pk
                         THEN [a EXCEPT !.file = file, !.name = name,
                                        !.artifact_labels = artifact_labels,
                                        !.description = description]
                     ELSE a : a \in artifacts}
    /\ last' = Idle
    /\ UNCHANGED <<investors, drafts, logs, responses, nextId, inflight>>

\* artifact_delete: the rows of EmailDraft.artifacts go with the artifact
ArtifactDelete(pk, user) ==
    /\ \E a \in artifacts : a.id = pk
    /\ artifacts' = {a \in artifacts : a.id # pk}
    /\ drafts' = {[d EXCEPT !.artifacts = @ \ {pk}] : d \in drafts}
    /\ last' = Idle
    /\ UNCHANGED <<investors, logs, responses, nextId, inflight>>

\* draft_create: EmailDraftForm checks that the name is not taken (exact match)
DraftCreate(user, name, body, attach) ==
    /\ nextId.draft <= MaxDraftId
    /\ IF \A d \in drafts : d.name # name
           THEN /\ drafts' = drafts \cup
                       {[id |-> nextId.draft, name |-> name, body |-> body,
                         artifacts |-> attach]}
                /\ nextId' = [nextId EXCEPT !.draft = @ + 1]
                /\ last' = Idle
       ELSE /\ UNCHANGED <<drafts, nextId>>
            /\ last' = Idle
    /\ UNCHANGED <<investors, artifacts, logs, responses, inflight>>

\* draft_edit
DraftEdit(pk, user, name, body, attach) ==
    /\ \E d \in drafts : d.id = pk
    /\ IF \A d \in drafts : d.id # pk => d.name # name
           THEN /\ drafts' = {IF d.id = pk
                                  THEN [d EXCEPT !.name = name, !.body = body,
                                                 !.artifacts = attach]
                              ELSE d : d \in drafts}
                /\ last' = Idle
       ELSE /\ UNCHANGED drafts
            /\ last' = Idle
    /\ UNCHANGED <<investors, artifacts, logs, responses, nextId, inflight>>

\* Mutant: the SET_NULL update is not restricted to the rows of this draft
DraftDelete_null_all(pk, user) ==
    /\ \E d \in drafts : d.id = pk
    /\ drafts' = {d \in drafts : d.id # pk}
    /\ logs' = {[l EXCEPT !.draft = NoId] : l \in logs}
    /\ last' = Idle
    /\ UNCHANGED <<investors, artifacts, responses, nextId, inflight>>

\* draft_delete: CommunicationLog.draft is on_delete=SET_NULL
DraftDelete(pk, user) ==
    /\ \E d \in drafts : d.id = pk
    /\ drafts' = {d \in drafts : d.id # pk}
    /\ logs' = {IF l.draft = pk THEN [l EXCEPT !.draft = NoId] ELSE l : l \in logs}
    /\ last' = Idle
    /\ UNCHANGED <<investors, artifacts, responses, nextId, inflight>>

\* response_create: the form offers the existing logs and investors
ResponseCreate(user, communication, investor) ==
    /\ nextId.response <= MaxResponseId
    /\ \E l \in logs : l.id = communication
    /\ \E i \in investors : i.id = investor
    /\ responses' = responses \cup
           {[id |-> nextId.response, communication |-> communication,
             investor |-> investor]}
    /\ nextId' = [nextId EXCEPT !.response = @ + 1]
    /\ last' = Idle
    /\ UNCHANGED <<investors, artifacts, drafts, logs, inflight>>

\* response_edit
ResponseEdit(pk, user, communication, investor) ==
    /\ \E r \in responses : r.id = pk
    /\ \E l \in logs : l.id = communication
    /\ \E i \in investors : i.id = investor
    /\ responses' = {IF r.id = pk
                         THEN [r EXCEPT !.communication = communication,
                                        !.investor = investor]
                     ELSE r : r \in responses}
    /\ last' = Idle
    /\ UNCHANGED <<investors, artifacts, drafts, logs, nextId, inflight>>

\* response_delete
ResponseDelete(pk, user) ==
    /\ \E r \in responses : r.id = pk
    /\ responses' = {r \in responses : r.id # pk}
    /\ last' = Idle
    /\ UNCHANGED <<investors, artifacts, drafts, logs, nextId, inflight>>

----------------------------------------------------------------------------
\* Concurrent requests: send-email commands of several requests at once.
\* Every database statement of _handle_send_email and of send_draft_email is
\* a step of its own (autocommit), and get_or_create is the get, the INSERT
\* under the unique index of Investor.email and, when the INSERT is refused,
\* the second get.

Running == {c \in Requests : inflight[c].pc \notin {"idle", "done"}}

\* process_message up to the draft lookup of line 73
RequestBegin(c, user, message, transport) ==
    LET text == Strip(MessageText(message))
        email_match == SendEmailSearch(text, 1)
        matching == {d \in drafts : IExact(d.name, email_match.groups[2])}
        request == [NoRequest EXCEPT !.user = user, !.transport = transport,
                                     !.email_address = email_match.groups[1]]
    IN /\ inflight[c].pc \in {"idle", "done"}
       /\ email_match.matched
       /\ nextId.investor + Cardinality(Running) <= MaxInvestorId
       /\ nextId.log + Cardinality(Running) <= MaxLogId
       /\ inflight' = [inflight EXCEPT ![c] =
              IF Cardinality(matching) > 1
                  THEN [request EXCEPT !.pc = "done", !.raised = "MultipleObjectsReturned"]
              ELSE IF matching = {}
                  THEN [request EXCEPT !.pc = "done", !.type = "error"]
              ELSE [request EXCEPT !.pc = "get", !.draft = CHOOSE d \in matching : TRUE]]
       /\ last' = Idle
       /\ UNCHANGED <<investors, artifacts, drafts, logs, responses, nextId>>

\* get_or_create: self.get(email=email_address)
RequestGet(c) ==
    LET found == {i \in investors : i.email = inflight[c].email_address}
    IN /\ inflight[c].pc = "get"
       /\ inflight' = [inflight EXCEPT ![c] =
              IF found # {}
                  THEN [@ EXCEPT !.pc = "send", !.investor = CHOOSE i \in found : TRUE]
              ELSE [@ EXCEPT !.pc = "create"]]
       /\ last' = Idle
       /\ UNCHANGED <<investors, artifacts, drafts, logs, responses, nextId>>

\* Mutant: Investor.email has no unique index
RequestCreate_not_unique(c) ==
    LET request == inflight[c]
        investor == [id |-> nextId.investor, name |-> SplitAtFirst(request.email_address),
                     email |-> request.email_address, labels |-> <<>>,
                     updated_by |-> IF request.user # NoUser THEN request.user
                                    ELSE "system"]
    IN /\ request.pc = "create"
       /\ investors' = investors \cup {investor}
       /\ nextId' = [nextId EXCEPT !.investor = @ + 1]
       /\ inflight' = [inflight EXCEPT ![c] =
              [@ EXCEPT !.pc = "send", !.investor = investor, !.created = TRUE]]
       /\ last' = Idle
       /\ UNCHANGED <<artifacts, drafts, logs, responses>>

\* get_or_create: self.create(email=email_address, **defaults); the unique
\* index refuses a second row with the email (IntegrityError)
RequestCreate(c) ==
    LET request == inflight[c]
        investor == [id |-> nextId.investor, name |-> SplitAtFirst(request.email_address),
                     email |-> request.email_address, labels |-> <<>>,
                     updated_by |-> IF request.user # NoUser THEN request.user
                                    ELSE "system"]
    IN /\ request.pc = "create"
       /\ IF \A i \in investors : i.email # request.email_address
              THEN /\ investors' = investors \cup {investor}
                   /\ nextId' = [nextId EXCEPT !.investor = @ + 1]
                   /\ inflight' = [inflight EXCEPT ![c] =
                          [@ EXCEPT !.pc = "send", !.investor = investor,
                                    !.created = TRUE]]
          ELSE /\ inflight' = [inflight EXCEPT ![c] =
                      [@ EXCEPT !.pc = "get_again", !.refused = TRUE]]
               /\ UNCHANGED <<investors, nextId>>
       /\ last' = Idle
       /\ UNCHANGED <<artifacts, drafts, logs, responses>>

\* get_or_create after the IntegrityError: self.get(email=email_address)
\* again, and the IntegrityError when the row is gone
RequestGetAgain(c) ==
    LET found == {i \in investors : i.email = inflight[c].email_address}
    IN /\ inflight[c].pc = "get_again"
       /\ inflight' = [inflight EXCEPT ![c] =
              IF found # {}
                  THEN [@ EXCEPT !.pc = "send", !.investor = CHOOSE i \in found : TRUE]
              ELSE [@ EXCEPT !.pc = "done", !.raised = "IntegrityError"]]
       /\ last' = Idle
       /\ UNCHANGED <<investors, artifacts, drafts, logs, responses, nextId>>

\* send_draft_email with the investor and the draft that were read; the
\* CommunicationLog row needs both rows to be there still
RequestSend(c) ==
    LET request == inflight[c]
        sent == send_draft_email(request.investor, request.draft, request.user,
                                 request.transport)
    IN /\ request.pc = "send"
       /\ IF /\ \E i \in investors : i.id = request.investor.id
             /\ \E d \in drafts : d.id = request.draft.id
              THEN /\ logs' = logs \cup {sent.rows[1] @@ [id |-> nextId.log]}
                   /\ nextId' = [nextId EXCEPT !.log = @ + 1]
                   /\ inflight' = [inflight EXCEPT ![c] =
                          [@ EXCEPT !.pc = "done", !.log = nextId.log,
                                    !.type = IF sent.success THEN "success"
                                             ELSE "error"]]
          ELSE /\ inflight' = [inflight EXCEPT ![c] =
                      [@ EXCEPT !.pc = "done", !.raised = "IntegrityError"]]
               /\ UNCHANGED <<logs, nextId>>
       /\ last' = Idle
       /\ UNCHANGED <<investors, artifacts, drafts, responses>>

----------------------------------------------------------------------------
\* Specifications

UploadStates == FileStates \ {"none"}
ArtifactIds == {a.id : a \in artifacts}

\* what the forms are given for the fields the mailer does not read
NoLabels == <<>>
DeckName == <<"D">>
PlainBody == <<"h", "i">>

\* The mailer: send-email commands for an existing draft "p", against
\* investors, artifacts and drafts made through the forms
NextMail ==
    \/ \E u \in Users \cup {NoUser}, m \in SendMessages(Emails, MailTails), t \in TransportOutcomes :
           ProcessMessage(u, m, t, AiUnconfigured)
    \/ \E u \in Users, n \in FormNames, e \in Emails : InvestorCreate(u, n, e, NoLabels)
    \/ \E u \in Users, f \in UploadStates : ArtifactCreate(u, f, DeckName, NoLabels, <<>>)
    \/ \E u \in Users, at \in SUBSET ArtifactIds : DraftCreate(u, <<"p">>, PlainBody, at)

SpecMail == Init /\ [][NextMail]_vars

\* The command parser: every text after "draft of", against drafts that are
\* created, renamed and deleted.  The transport works, so which draft is
\* sent, if any, is decided by the parsing and the lookup alone.
NextParse ==
    \/ \E m \in SendMessages({Jane}, CommandTails) :
           ProcessMessage("alice", m, TransportOk, AiUnconfigured)
    \/ \E u \in Users, n \in FormDraftNames : DraftCreate(u, n, PlainBody, {})
    \/ \E pk \in 1..MaxDraftId, u \in Users, n \in FormDraftNames :
           DraftEdit(pk, u, n, PlainBody, {})
    \/ \E pk \in 1..MaxDraftId, u \in Users : DraftDelete(pk, u)

SpecParse == Init /\ [][NextParse]_vars

\* The endpoint: every method and body

NextApi ==
    \/ \E me \in Methods, u \in Users, b \in Bodies(BodyShapes, SendMessages(Emails, ApiTails)),
          t \in TransportOutcomes : ChatbotApi(me, u, b, t, AiUnconfigured)
    \/ \E u \in Users, n \in FormDraftNames : DraftCreate(u, n, PlainBody, {})
    \/ \E u \in Users, n \in FormNames, e \in Emails : InvestorCreate(u, n, e, NoLabels)

SpecApi == Init /\ [][NextApi]_vars

\* The whole application: the chatbot and every create, edit and delete
\* view.  Send-email commands write the audit rows, the views change the
\* rows they refer to.
CrudDraftNames == {<<"p">>, <<"P">>}
CrudEmails == {Jane}
CrudShapes == {"invalid_json", "json_array", "message_text"}

Next ==
    \/ \E u \in Users, m \in SendMessages(CrudEmails, MailTails), t \in TransportOutcomes :
           ProcessMessage(u, m, t, AiUnconfigured)
    \/ \E me \in Methods, u \in Users,
          b \in Bodies(CrudShapes, SendMessages(CrudEmails, MailTails)),
          t \in TransportOutcomes : ChatbotApi(me, u, b, t, AiUnconfigured)
    \/ \E u \in Users, n \in FormNames, e \in Emails : InvestorCreate(u, n, e, NoLabels)
    \/ \E pk \in 1..MaxInvestorId, u \in Users, n \in FormNames, e \in Emails :
           InvestorEdit(pk, u, n, e, NoLabels)
    \/ \E pk \in 1..MaxInvestorId, u \in Users : InvestorDelete(pk, u)
    \/ \E u \in Users : ArtifactCreate(u, "ok", DeckName, NoLabels, <<>>)
    \/ \E pk \in 1..MaxArtifactId, u \in Users, f \in {"ok", "missing"} :
           ArtifactEdit(pk, u, f, DeckName, NoLabels, <<>>)
    \/ \E pk \in 1..MaxArtifactId, u \in Users : ArtifactDelete(pk, u)
    \/ \E u \in Users, at \in SUBSET ArtifactIds : DraftCreate(u, <<"p">>, PlainBody, at)
    \/ \E pk \in 1..MaxDraftId, u \in Users, n \in CrudDraftNames, at \in SUBSET ArtifactIds :
           DraftEdit(pk, u, n, PlainBody, at)
    \/ \E pk \in 1..MaxDraftId, u \in Users : DraftDelete(pk, u)
    \/ \E u \in Users, c \in 1..MaxLogId, i \in 1..MaxInvestorId : ResponseCreate(u, c, i)
    \/ \E pk \in 1..MaxResponseId, u \in Users, c \in 1..MaxLogId, i \in 1..MaxInvestorId :
           ResponseEdit(pk, u, c, i)
    \/ \E pk \in 1..MaxResponseId, u \in Users : ResponseDelete(pk, u)

Spec == Init /\ [][Next]_vars

\* The interpreter: messages that hold a send-email command, a search
\* command, both or neither, with every outcome of the AI backend, against
\* rows made through the forms
NextChat ==
    \/ \E u \in Users, m \in ChatMessages, t \in TransportOutcomes, ai \in AiOutcomes :
           ProcessMessage(u, m, t, ai)
    \/ \E u \in Users, n \in FormNames, e \in Emails : InvestorCreate(u, n, e, NoLabels)
    \/ \E u \in Users : ArtifactCreate(u, "ok", DeckName, NoLabels, <<>>)
    \/ \E u \in Users : DraftCreate(u, <<"p">>, PlainBody, {})

SpecChat == Init /\ [][NextChat]_vars

\* The search: queries whose keywords are found in the names, the emails and
\* the labels of investors that are created, edited and deleted
Tech == <<"T", "e", "c", "h">>
FormLabels == {NoLabels, Tech}

NextSearch ==
    \/ \E u \in Users, m \in ShowMessages(SearchTails) :
           ProcessMessage(u, m, TransportOk, AiUnconfigured)
    \/ \E u \in Users, n \in FormNames, e \in Emails, l \in FormLabels :
           InvestorCreate(u, n, e, l)
    \/ \E pk \in 1..MaxInvestorId, u \in Users, n \in FormNames, e \in Emails,
          l \in FormLabels : InvestorEdit(pk, u, n, e, l)
    \/ \E pk \in 1..MaxInvestorId, u \in Users : InvestorDelete(pk, u)

SpecSearch == Init /\ [][NextSearch]_vars

\* The tokenizer: a message is typed into the chat box and processed once
Typed(message) ==
    Last("typed", NoUser, "", "", message, ViewResult(0, NoError, NoResponse, NoEffect))

----------------------------------------------------------------------------
\* Specifications (continued)

\* The references of the log: send-email commands, and investors and drafts
\* that are deleted under the rows that name them
NextDelete ==
    \/ \E u \in Users, m \in SendMessages(Emails, MailTails), t \in TransportOutcomes :
           ProcessMessage(u, m, t, AiUnconfigured)
    \/ \E u \in Users : DraftCreate(u, <<"p">>, PlainBody, {})
    \/ \E pk \in 1..MaxDraftId, u \in Users : DraftDelete(pk, u)
    \/ \E pk \in 1..MaxInvestorId, u \in Users : InvestorDelete(pk, u)

SpecDelete == Init /\ [][NextDelete]_vars

\* Two requests at once: send-email commands to jane@x.io whose database
\* statements interleave, once the draft "p" is there
NextRace ==
    \/ \E c \in Requests, u \in Users, m \in SendMessages({Jane}, MailTails),
          t \in TransportOutcomes : RequestBegin(c, u, m, t)
    \/ \E c \in Requests : RequestGet(c)
    \/ \E c \in Requests : RequestCreate(c)
    \/ \E c \in Requests : RequestGetAgain(c)
    \/ \E c \in Requests : RequestSend(c)
    \/ \E u \in Users : DraftCreate(u, <<"p">>, PlainBody, {})

SpecRace == Init /\ [][NextRace]_vars

----------------------------------------------------------------------------
\* Claims

NewLogs == logs' \ logs
NewInvestors == investors' \ investors

\* C1: every invocation of send_draft_email, whether it succeeds or fails,
\* adds exactly one CommunicationLog row, linked to the given investor and
\* draft and stamped with the given user.
C1_OneLogRowPerSend ==
    [][last'.called =>
          /\ logs \subseteq logs'
          /\ Cardinality(NewLogs) = 1
          /\ \A row \in NewLogs :
                /\ row.investor = last'.call.investor
                /\ row.draft = last'.call.draft
                /\ row.sent_by = last'.user
                /\ \E i \in investors' :
                      i.id = row.investor /\ i.email = last'.message.email
                /\ \E d \in drafts' :
                      d.id = row.draft /\ IExact(d.name, last'.draft_name)
      ]_vars

\* a failed send has left its one row behind
C1_Witness ==
    /\ last.called
    /\ ~last.send.success
    /\ \E l \in logs : /\ l.id = nextId.log - 1
                       /\ l.status = "failed"
                       /\ l.investor = last.call.investor
                       /\ l.draft = last.call.draft

\* C2: when the mail transport fails during a send-email command whose draft
\* exists, the command adds no 'success' row and exactly one 'failed' row
\* whose note carries the transport's error text, send_draft_email returns
\* (False, error text) and process_message returns type 'error' without data.
C2_TransportFailure ==
    [][(last'.op = "process_message" /\ last'.send.transport \in TransportErrors) =>
          /\ logs \subseteq logs'
          /\ Cardinality(NewLogs) = 1
          /\ \A row \in NewLogs :
                /\ row.status = "failed"
                /\ \E k \in 1..Len(row.notes) : row.notes[k] = last'.send.transport
          /\ last'.send.success = FALSE
          /\ last'.send.message = last'.send.transport
          /\ last'.raised = NoError
          /\ last'.response.type = "error"
          /\ ~last'.response.hasData
      ]_vars

C2_Witness ==
    /\ last.op = "process_message"
    /\ last.send.transport \in TransportErrors
    /\ last.response.type = "error"
    /\ \E l \in logs : l.id = nextId.log - 1 /\ l.status = "failed"

\* C3: for a valid email e with no Investor and an existing draft, a
\* send-email command whose transport succeeds creates exactly one Investor
\* with email e, name = the part of e before '@' and updated_by = the acting
\* user's username ('system' without a user), and exactly one 'success'
\* CommunicationLog row linked to that investor and the draft; the response
\* type is 'success'.
C3_NewInvestorOnSuccess ==
    [][(/\ last'.op = "process_message"
        /\ last'.send.transport = TransportOk
        /\ \A i \in investors : i.email # last'.message.email) =>
          /\ investors \subseteq investors'
          /\ Cardinality(NewInvestors) = 1
          /\ logs \subseteq logs'
          /\ Cardinality(NewLogs) = 1
          /\ \A i \in NewInvestors :
                /\ i.email = last'.message.email
                /\ Len(i.name) < Len(i.email)
                /\ i.name = SubSeq(i.email, 1, Len(i.name))
                /\ i.email[Len(i.name) + 1] = "@"
                /\ \A k \in 1..Len(i.name) : i.name[k] # "@"
                /\ i.updated_by = IF last'.user = NoUser THEN "system" ELSE last'.user
                /\ \A row \in NewLogs :
                      /\ row.status = "success"
                      /\ row.investor = i.id
                      /\ \E d \in drafts' :
                            d.id = row.draft /\ IExact(d.name, last'.draft_name)
          /\ last'.response.type = "success"
      ]_vars

\* a user-less command has created investor "jane" and sent to it
C3_Witness ==
    /\ last.op = "process_message"
    /\ last.user = NoUser
    /\ last.response.type = "success"
    /\ \E i \in last.created :
          /\ i \in investors
          /\ i.name = <<"j", "a", "n", "e">>
          /\ i.updated_by = "system"
          /\ \E l \in logs : l.investor = i.id /\ l.status = "success"

\* C4: after any sequence of send-email commands at most one Investor row has
\* a given email: a command addressed to an email that already has an
\* Investor reuses that investor and creates no Investor row.
C4_NoDuplicateInvestor ==
    [][/\ \A i, j \in investors' : i.email = j.email => i = j
       /\ (last'.called /\ \E i \in investors : i.email = last'.message.email) =>
             /\ investors' = investors
             /\ \A row \in NewLogs :
                   \E i \in investors : i.id = row.investor /\ i.email = last'.message.email
      ]_vars

\* two commands were sent to the same address, which has one Investor row
C4_Witness ==
    /\ last.called
    /\ last.created = {}
    /\ Cardinality({i \in investors : i.email = last.message.email}) = 1
    /\ \E l1, l2 \in logs : l1.id # l2.id /\ l1.investor = l2.investor

IsWord(s) == s # <<>> /\ \A k \in 1..Len(s) : s[k] \in WordChars

\* The response of a command whose draft was not found: type 'error', the
\* message lists exactly the current draft names, nothing was sent
DraftNotFoundResponse ==
    /\ last.raised = NoError
    /\ last.response.type = "error"
    /\ last.response.message.text = "Draft not found. Available drafts:"
    /\ IF drafts = {}
           THEN last.response.message.names = <<NoDraftsAvailable>>
       ELSE /\ SeqToSet(last.response.message.names) = {d.name : d \in drafts}
            /\ Len(last.response.message.names) = Cardinality(drafts)
    /\ ~last.called
    /\ ~last.send.submitted
    /\ last.created = {}

\* C5, as claimed: for every draft name d not present in storage,
\* process_message("send email to a@b.com draft of " + d) returns type
\* 'error' and a message listing exactly the current draft names (or that
\* none are available), and sends no email.
C5_Claim ==
    (last.op = "process_message" /\ \A d \in drafts : d.name # last.message.tail)
        => DraftNotFoundResponse

\* C5, amended: the same for every draft name d made of word characters
\* only that equals no stored draft name under case-insensitive comparison.
C5_UnknownWordListsDrafts ==
    (/\ last.op = "process_message"
     /\ IsWord(last.message.tail)
     /\ \A d \in drafts : LowerStr(d.name) # LowerStr(last.message.tail))
        => DraftNotFoundResponse

\* a two-letter name was asked for while two other drafts exist, and both
\* were listed
C5_Witness ==
    /\ last.op = "process_message"
    /\ IsWord(last.message.tail)
    /\ Len(last.message.tail) = 2
    /\ Cardinality(drafts) = 2
    /\ last.response.type = "error"
    /\ Len(last.response.message.names) = 2

\* C6, as claimed: a failure to attach an artifact file, at whatever step,
\* does not abort the send: every artifact with a file is attempted, the
\* message is submitted to the transport and the logged status is the
\* transport's result.
C6_Claim ==
    last.called =>
        /\ last.send.attempted =
               {a.id : a \in {x \in artifacts :
                                 /\ x.file # "none"
                                 /\ \E d \in drafts :
                                       d.id = last.call.draft /\ x.id \in d.artifacts}}
        /\ last.send.submitted
        /\ \A l \in logs :
               l.id = nextId.log - 1 =>
                   (l.status = "success" <=> last.send.transport = TransportOk)

\* C7, as claimed: the endpoint returns the interpreter's response as JSON;
\* after a send-email command that succeeded the caller receives type
\* 'success', not a server fault.
C7_Claim ==
    (last.op = "chatbot_api" /\ last.send.success) =>
        /\ last.raised = NoError
        /\ last.http = 200
        /\ last.response.type = "success"
        /\ Serializable(last.response)

\* C8, as claimed: a POST whose body is malformed or carries no usable
\* message completes with a non-5xx response of type 'error', and no
\* exception escapes the view.
C8_Claim ==
    (last.op = "chatbot_api" /\ last.method = "POST" /\ last.shape # "message_text") =>
        /\ last.raised = NoError
        /\ last.http < 500
        /\ last.response.type = "error"

\* C9, as claimed: a CommunicationLog row, once created, keeps the same
\* investor, draft, status, sender and notes for as long as it exists.
C9_Claim ==
    [][\A l \in logs : \A m \in logs' : m.id = l.id => m = l]_vars

\* C9, amended: a row keeps its investor, status, sender and notes; its draft
\* stays the same or becomes empty in the step that deletes that draft.
C9_AppendOnlyButDraft ==
    [][\A l \in logs : \A m \in logs' :
           m.id = l.id =>
               /\ m.investor = l.investor
               /\ m.status = l.status
               /\ m.sent_by = l.sent_by
               /\ m.notes = l.notes
               /\ \/ m.draft = l.draft
                  \/ /\ m.draft = NoId
                     /\ \E d \in drafts : d.id = l.draft
                     /\ \A d \in drafts' : d.id # l.draft
      ]_vars

\* a row has outlived its draft, and a response was recorded against it
C9_Witness ==
    \E l \in logs :
        /\ l.draft = NoId
        /\ l.notes = <<"Email sent via chatbot">>
        /\ \E r \in responses : r.communication = l.id
        /\ \E d \in drafts : d.id > 1

\* C10, as claimed: for every message matching the send-email pattern, in
\* every storage state reachable through draft create, edit and delete, the
\* case-insensitive lookup finds one draft or none and process_message
\* returns a response of type 'success' or 'error'; no exception escapes.
C10_Claim ==
    last.op = "process_message" =>
        /\ Cardinality({d \in drafts : IExact(d.name, last.draft_name)}) <= 1
        /\ last.raised = NoError
        /\ last.response.type \in {"success", "error"}

\* C11: process_message hands every trimmed message to exactly one handler,
\* the first that applies: the send-email handler when the send-email pattern
\* matches (also when the search pattern matches too), else the search
\* handler when the search pattern matches, else the generic-query handler.
C11_FirstMatchWins ==
    last.op = "process_message" =>
        LET text == Strip(MessageText(last.message))
            is_send == SendEmailSearch(text, 1).matched
            is_search == SearchSearch(text, 1).matched
        IN /\ Len(last.handlers) = 1
           /\ is_send => last.handlers = <<"send_email">>
           /\ (~is_send /\ is_search) => last.handlers = <<"search">>
           /\ (~is_send /\ ~is_search) => last.handlers = <<"generic_query">>
           /\ last.handlers # <<"send_email">> => ~last.called /\ last.created = {}
           /\ last.handlers # <<"search">> => last.keywords = <<>>
           /\ last.handlers # <<"generic_query">> =>
                  last.ai = NoAi /\ last.response.type \notin {"help", "ai_response"}

\* "show data for send email to jane@x.io draft of p" was sent as an email
C11_Witness ==
    /\ last.op = "process_message"
    /\ last.message.cmd = "show_send"
    /\ SearchSearch(Strip(MessageText(last.message)), 1).matched
    /\ last.handlers = <<"send_email">>
    /\ last.send.submitted

\* C12: for a message that matches neither command pattern, process_message
\* returns type 'help' with the current counts of investors, artifacts and
\* drafts when no AI backend is configured or the backend call fails, the
\* backend's error reaches neither the response nor the caller, and the type
\* is 'ai_response' exactly when the backend returned a completion.
C12_HelpOnAnyFailure ==
    (last.op = "process_message" /\ last.handlers = <<"generic_query">>) =>
        /\ last.raised = NoError
        /\ last.response.type = "ai_response" <=> last.ai = AiCompletion
        /\ last.ai # AiCompletion =>
              /\ last.response.type = "help"
              /\ last.response.message.investor_count = Cardinality(investors)
              /\ last.response.message.artifact_count = Cardinality(artifacts)
              /\ last.response.message.draft_count = Cardinality(drafts)
              /\ last.response.message.text \notin AiErrors
              /\ last.response.message.detail \notin AiErrors

\* the backend failed and the help text gave the counts 2, 1 and 1
C12_Witness ==
    /\ last.op = "process_message"
    /\ last.ai \in AiErrors
    /\ last.prompt.asked
    /\ last.response.type = "help"
    /\ last.response.message.investor_count = 2
    /\ last.response.message.artifact_count = 1
    /\ last.response.message.draft_count = 1

\* C13: when send-email commands for the same unknown email run at once,
\* their investor lookup and creation interleaved under the unique index of
\* Investor.email, at most one Investor row has the email in every reachable
\* state, and every command that has completed has written its own
\* CommunicationLog row, linked to that one investor: two rows for two
\* commands.
C13_OneInvestorTwoLogs ==
    /\ \A i, j \in investors : i.email = j.email => i = j
    /\ \A c \in Requests :
          (inflight[c].pc = "done" /\ inflight[c].draft.id # NoId) =>
              /\ inflight[c].raised = NoError
              /\ \E l \in logs :
                    /\ l.id = inflight[c].log
                    /\ \E i \in investors :
                          i.id = l.investor /\ i.email = inflight[c].email_address
              /\ \A d \in Requests \ {c} :
                    inflight[d].pc = "done" => inflight[d].log # inflight[c].log

\* both requests missed the investor, one INSERT was refused, and the two
\* rows name the investor the other request created
C13_Witness ==
    /\ \A c \in Requests : inflight[c].pc = "done" /\ inflight[c].log # NoId
    /\ \E c \in Requests : inflight[c].refused /\ ~inflight[c].created
    /\ \E c \in Requests : inflight[c].created
    /\ Cardinality(investors) = 1
    /\ Cardinality(logs) = 2
    /\ \A l \in logs : \A i \in investors : l.investor = i.id

NoDanglingReference ==
    \A l \in logs :
        /\ \E i \in investors : i.id = l.investor
        /\ l.draft = NoId \/ \E d \in drafts : d.id = l.draft

\* C14: after any sequence of send-email commands and investor and draft
\* deletions every CommunicationLog row names an existing Investor and an
\* existing EmailDraft or none: deleting an investor deletes exactly the rows
\* of that investor, and deleting a draft deletes no row.
C14_NoDanglingReference ==
    [][/\ NoDanglingReference'
       /\ \A l \in logs :
             (\E m \in logs' : m.id = l.id) <=> (\E i \in investors' : i.id = l.investor)
      ]_vars

\* the investor of one row was deleted and took the row along; the draft of
\* the other row was deleted and the row is still there
C14_Witness ==
    /\ nextId.investor = 3
    /\ nextId.log = 3
    /\ Cardinality(investors) = 1
    /\ Cardinality(logs) = 1
    /\ drafts = {}
    /\ \A l \in logs : l.draft = NoId /\ \E i \in investors : i.id = l.investor

\* the keywords that are a case-insensitive substring of the investor's name,
\* email or labels, by their position in the keyword list
MatchedBy(keywords, investor) ==
    {n \in 1..Len(keywords) :
        \/ IContains(investor.name, keywords[n])
        \/ IContains(investor.email, keywords[n])
        \/ IContains(investor.labels, keywords[n])}

FirstMatch(keywords, investor) ==
    CHOOSE n \in MatchedBy(keywords, investor) :
        \A m \in MatchedBy(keywords, investor) : n <= m

\* C15: for every non-empty keyword list the investor list of the search
\* holds an Investor if and only if some keyword is a case-insensitive
\* substring of its name, email or labels; each such investor is listed once,
\* in the order in which the keywords first find them, and the same search
\* on unchanged storage returns the same list.
C15_SearchFindsExactlyTheMatches ==
    [][(last'.handlers = <<"search">> /\ last'.keywords # <<>>) =>
          LET found == last'.response.data.investors.ids
          IN /\ \A i \in investors' :
                   (\E n \in 1..Len(found) : found[n] = i.id)
                       <=> MatchedBy(last'.keywords, i) # {}
             /\ \A n \in 1..Len(found) : \E i \in investors' : i.id = found[n]
             /\ \A m, n \in 1..Len(found) : m # n => found[m] # found[n]
             /\ \A m, n \in 1..Len(found) : \A i, j \in investors' :
                   (m < n /\ i.id = found[m] /\ j.id = found[n]) =>
                       FirstMatch(last'.keywords, i) <= FirstMatch(last'.keywords, j)
             /\ (last.message = last'.message /\ last.op = last'.op
                     /\ investors' = investors) =>
                   last.response.data.investors.ids = found
      ]_vars

\* "jane tech": the older investor is found by both keywords and is listed
\* once, before the newer one that only the second keyword finds
C15_Witness ==
    /\ last.handlers = <<"search">>
    /\ Len(last.keywords) = 2
    /\ Len(last.response.data.investors.ids) = 2
    /\ last.response.data.investors.ids[1] < last.response.data.investors.ids[2]
    /\ \E i \in investors :
          /\ i.id = last.response.data.investors.ids[1]
          /\ MatchedBy(last.keywords, i) = {1, 2}
          /\ i.labels # <<>>

----------------------------------------------------------------------------
\* The tokenizer of the search command

InitTokens ==
    /\ investors = {}
    /\ artifacts = {}
    /\ drafts = {}
    /\ logs = {}
    /\ responses = {}
    /\ nextId = [investor |-> 1, artifact |-> 1, draft |-> 1, log |-> 1, response |-> 1]
    /\ \E m \in ShowMessages(TokenTails) : last = Typed(m)
    /\ inflight = [c \in Requests |-> NoRequest]

NextTokens ==
    \E u \in Users :
        /\ last.op = "typed"
        /\ ProcessMessage(u, last.message, TransportOk, AiUnconfigured)

SpecTokens == InitTokens /\ [][NextTokens]_vars

\* C16: the keyword list of a search never holds an empty token nor one of
\* the stop-words 'and', 'or', 'for', 'the' in any letter case, and a search
\* whose filtering leaves no keyword answers with type 'error' and no data.
C16_Claim ==
    last.handlers = <<"search">> =>
        /\ \A n \in 1..Len(last.keywords) :
              /\ last.keywords[n] # <<>>
              /\ LowerStr(last.keywords[n]) \notin StopWords
        /\ last.keywords = <<>> =>
              (last.response.type = "error" /\ last.response.data = NoData)

\* C17: every quoted text of the query is one keyword verbatim, the quote
\* marks stripped and the blanks kept, and every unquoted word between blanks
\* is one keyword, in the order of the query.
C17_Claim ==
    last.handlers = <<"search">> =>
        \A c \in BlankSeparatedCases :
            c.text = last.query => last.keywords = c.keywords

----------------------------------------------------------------------------
\* The summary of the search: storage that already holds up to MaxRows
\* investors and artifacts, one of the investors under another name

RowTags == <<"a", "b", "c", "d", "e", "f", "g", "h", "i", "j", "k", "l", "m", "n">>
RowEmail(id) == <<RowTags[id]>> \o <<"@", "x", ".", "i", "o">>
FundName == <<"P", "E">>

StoredInvestors(count, other) ==
    {[id |-> id, name |-> IF id = other THEN FundName ELSE <<"V", "C">>,
      email |-> RowEmail(id), labels |-> NoLabels, updated_by |-> "alice"] :
          id \in 1..count}
StoredArtifacts(count) ==
    {[id |-> id, file |-> "ok", name |-> DeckName, artifact_labels |-> NoLabels,
      description |-> <<>>] : id \in 1..count}

InitSummary ==
    /\ \E count \in 0..MaxRows : \E other \in 0..count :
          /\ investors = StoredInvestors(count, other)
          /\ \E stored \in 0..MaxRows :
                /\ artifacts = StoredArtifacts(stored)
                /\ nextId = [investor |-> count + 1, artifact |-> stored + 1,
                             draft |-> 1, log |-> 1, response |-> 1]
    /\ drafts = {}
    /\ logs = {}
    /\ responses = {}
    /\ last = Idle
    /\ inflight = [c \in Requests |-> NoRequest]

NextSummary ==
    \E u \in Users, m \in ShowMessages(SummaryTails) :
        ProcessMessage(u, m, TransportOk, AiUnconfigured)

SpecSummary == InitSummary /\ [][NextSummary]_vars

ArtifactMatchedBy(keywords, artifact) ==
    {n \in 1..Len(keywords) :
        \/ IContains(artifact.name, keywords[n])
        \/ IContains(artifact.artifact_labels, keywords[n])
        \/ IContains(artifact.description, keywords[n])}

IsPrefix(short, long) ==
    Len(short) <= Len(long) /\ short = SubSeq(long, 1, Len(short))

\* C18: a search with a non-empty keyword list answers with type
\* 'search_results'; its summary lists at most SummaryLimit investors and at
\* most SummaryLimit artifacts, the first of the found ones, and states the
\* full counts of the matches; its payload carries every matching investor
\* and every matching artifact, each once, and the keyword list.
C18_SummaryCutPayloadWhole ==
    (last.handlers = <<"search">> /\ last.keywords # <<>>) =>
        LET summary == last.response.message
            data == last.response.data
            matching_investors ==
                {i.id : i \in {r \in investors : MatchedBy(last.keywords, r) # {}}}
            matching_artifacts ==
                {a.id : a \in {r \in artifacts : ArtifactMatchedBy(last.keywords, r) # {}}}
        IN /\ last.response.type = "search_results"
           /\ Len(summary.investor_lines) <= SummaryLimit
           /\ Len(summary.artifact_lines) <= SummaryLimit
           /\ summary.investor_count = Cardinality(matching_investors)
           /\ summary.artifact_count = Cardinality(matching_artifacts)
           /\ SeqToSet(data.investors.ids) = matching_investors
           /\ Len(data.investors.ids) = Cardinality(matching_investors)
           /\ SeqToSet(data.artifacts.ids) = matching_artifacts
           /\ Len(data.artifacts.ids) = Cardinality(matching_artifacts)
           /\ IsPrefix(summary.investor_lines, data.investors.ids)
           /\ IsPrefix(summary.artifact_lines, data.artifacts.ids)
           /\ Len(summary.investor_lines) < Len(data.investors.ids) =>
                 Len(summary.investor_lines) = SummaryLimit
           /\ Len(summary.artifact_lines) < Len(data.artifacts.ids) =>
                 Len(summary.artifact_lines) = SummaryLimit
           /\ data.keywords.ids = last.keywords
           /\ summary.about = last.keywords

\* more than SummaryLimit investors and artifacts match: the summary lists
\* SummaryLimit of each and the payload carries them all
C18_Witness ==
    /\ last.handlers = <<"search">>
    /\ Len(last.keywords) = 3
    /\ last.response.message.investor_count > SummaryLimit
    /\ Len(last.response.message.investor_lines) = SummaryLimit
    /\ Len(last.response.data.investors.ids) > SummaryLimit
    /\ last.response.message.artifact_count > SummaryLimit
    /\ Len(last.response.message.artifact_lines) = SummaryLimit
    /\ Len(last.response.data.artifacts.ids) > SummaryLimit

----------------------------------------------------------------------------
\* The endpoint and the interpreter

\* C19: the endpoint hands a request to process_message only when it is a
\* POST whose message is not empty after trimming; a request of another
\* method is answered with 405 and a POST without a message, or with an empty
\* or blank one, with type 'error', and neither reaches a handler, sends an
\* email, or adds an Investor or a CommunicationLog row.
C19_InterpreterOnlyForPostedText ==
    [][last'.op = "chatbot_api" =>
          LET untouched ==
                  /\ last'.handlers = <<>>
                  /\ ~last'.called
                  /\ ~last'.send.submitted
                  /\ last'.send.attempted = {}
                  /\ last'.created = {}
                  /\ investors' = investors
                  /\ logs' = logs
          IN /\ last'.handlers # <<>> =>
                   (last'.method = "POST" /\ last'.shape = "message_text")
             /\ last'.method # "POST" =>
                   (last'.http = 405 /\ last'.response.type = "error" /\ untouched)
             /\ (last'.method = "POST"
                     /\ last'.shape \in {"no_message", "message_empty", "message_blank"}) =>
                   (last'.http = 200 /\ last'.response.type = "error" /\ untouched)
      ]_vars

\* a GET that carries a send command for a stored draft: 405 and nothing sent
C19_Witness ==
    /\ last.op = "chatbot_api"
    /\ last.method = "GET"
    /\ last.shape = "message_text"
    /\ last.http = 405
    /\ \E d \in drafts : LowerStr(d.name) = LowerStr(last.message.tail)
    /\ last.handlers = <<>>
    /\ logs = {}

----------------------------------------------------------------------------
\* The content type of the composed message

BodyAlphabet == {"<", ">", "b"}
BoldTag == <<"<", "b", ">">>
MailBodies == SeqsUpTo(BodyAlphabet, MaxBodyLen) \cup {BoldTag}
PathLists == {<<"missing", "ok">>}

NextHtml ==
    \/ \E u \in Users, body \in MailBodies : DraftCreate(u, <<"p">>, body, {})
    \/ \E u \in Users, m \in SendMessages({Jane}, {<<"p">>}), t \in TransportOutcomes :
           ProcessMessage(u, m, t, AiUnconfigured)
    \/ \E body \in MailBodies, paths \in PathLists, u \in Users :
           SendCustomEmail(Jane, body, paths, u, TransportOk)

SpecHtml == Init /\ [][NextHtml]_vars

HasOpenAndClose(body) == "<" \in SeqToSet(body) /\ ">" \in SeqToSet(body)

\* C20: the message composed by send_draft_email and the one composed by
\* send_custom_email is marked HTML exactly when the body holds a '<' and a
\* '>', wherever they stand; otherwise it stays plain text.
C20_HtmlIffBothBrackets ==
    /\ last.op = "send_custom_email" =>
          /\ last.send.content_subtype \in {"html", "plain"}
          /\ last.send.content_subtype = "html" <=> HasOpenAndClose(last.message.tail)
    /\ (last.op = "process_message" /\ last.called) =>
          \A d \in drafts : d.id = last.call.draft =>
              /\ last.send.content_subtype \in {"html", "plain"}
              /\ last.send.content_subtype = "html" <=> HasOpenAndClose(d.body)

\* the draft body "<b>" was sent as HTML
C20_Witness ==
    /\ last.op = "process_message"
    /\ last.called
    /\ last.send.submitted
    /\ last.send.content_subtype = "html"
    /\ \E d \in drafts : d.id = last.call.draft /\ d.body = BoldTag

\* C21: when an AI backend is configured, the context prompt of the
\* generic-query handler gives the current numbers of investors, artifacts and
\* drafts, and as the number of emails sent the number of CommunicationLog
\* rows with status 'success': failed send attempts are not counted.
C21_Claim ==
    (last.op = "process_message" /\ last.prompt.asked) =>
        /\ last.prompt.investor_count = Cardinality(investors)
        /\ last.prompt.artifact_count = Cardinality(artifacts)
        /\ last.prompt.draft_count = Cardinality(drafts)
        /\ last.prompt.recent_emails =
               Cardinality({l \in logs : l.status = "success"})

\* C22: a send-email command whose draft name matches no EmailDraft leaves
\* storage unchanged: it creates no Investor row, also when the recipient
\* email is unknown, writes no CommunicationLog row and submits nothing to
\* the mail transport.
C22_UnknownDraftWritesNothing ==
    [][(/\ last'.handlers = <<"send_email">>
        /\ \A d \in drafts : ~IExact(d.name, last'.draft_name)) =>
          /\ investors' = investors
          /\ logs' = logs
          /\ UNCHANGED <<artifacts, drafts, responses, nextId>>
          /\ last'.created = {}
          /\ ~last'.called
          /\ last'.send = NoSend
      ]_vars

\* the draft "q" was asked for an email that no investor has while another
\* investor and another draft are stored
C22_Witness ==
    /\ last.handlers = <<"send_email">>
    /\ last.draft_name = <<"q">>
    /\ drafts # {}
    /\ investors # {}
    /\ \A i \in investors : i.email # last.message.email
    /\ logs = {}
    /\ last.response.type = "error"
    /\ last.send = NoSend

\* C23: when a send-email command addressed to an unknown email fails at the
\* mail transport, the Investor row created on the fly stays: after the
\* command the investor exists and the 'failed' CommunicationLog row
\* references it, and a later send-email command to the same email finds
\* that investor and creates no other.
C23_InvestorKeptOnFailure ==
    [][/\ (/\ last'.op = "process_message"
           /\ last'.send.transport \in TransportErrors
           /\ \A i \in investors : i.email # last'.message.email) =>
             /\ investors \subseteq investors'
             /\ Cardinality(NewInvestors) = 1
             /\ Cardinality(NewLogs) = 1
             /\ \A i \in NewInvestors :
                   /\ i.email = last'.message.email
                   /\ \A row \in NewLogs :
                         row.status = "failed" /\ row.investor = i.id
       /\ (/\ last'.op = "process_message"
           /\ last'.called
           /\ \E l \in logs, i \in investors :
                 /\ l.status = "failed"
                 /\ l.investor = i.id
                 /\ i.email = last'.message.email) =>
             /\ investors' = investors
             /\ last'.created = {}
             /\ \E i \in investors :
                   i.email = last'.message.email /\ last'.call.investor = i.id
      ]_vars

\* the first command to an address failed and left the investor with its
\* 'failed' row behind; a later command to the address has used that investor
C23_Witness ==
    /\ last.op = "process_message"
    /\ last.called
    /\ last.created = {}
    /\ \E i \in investors :
          /\ i.email = last.message.email
          /\ i.name = SplitAtFirst(i.email)
          /\ last.call.investor = i.id
          /\ Cardinality({j \in investors : j.email = i.email}) = 1
          /\ \E l \in logs :
                /\ l.investor = i.id
                /\ l.status = "failed"
                /\ l.id < nextId.log - 1
                /\ \A k \in logs : k.investor = i.id => k.id >= l.id

====
